---- MODULE Spec2Model ----
(***************************************************************************)
(* The instruction codec of the lending program (src/src/instruction.rs):  *)
(* LendingInstruction::unpack, LendingInstruction::pack and the field      *)
(* readers of util::unpack_util they are built from.                       *)
(*                                                                         *)
(* Representation.  A byte is a number in 0..255 and a buffer (&[u8],      *)
(* Vec<u8>) a sequence of bytes.  A u16 is a number in 0..65535.  TLC's    *)
(* integers are 32 bits wide, so a u64 is held as its four 16-bit limbs,   *)
(* least significant limb first: <<l0, l1, l2, l3>> stands for             *)
(* l0 + 2^16 * l1 + 2^32 * l2 + 2^48 * l3.  Every u64 has exactly one such *)
(* representation, so equality of u64 values is equality of limb tuples.   *)
(* A Pubkey and a [u8; 32] are sequences of 32 bytes.                      *)
(***************************************************************************)
EXTENDS Integers, Sequences, FiniteSets, TLC

VARIABLES
    pc,         \* "idle", or which call has just returned
    input,      \* the buffer handed to unpack
    unpacked,   \* what unpack returned for input
    instr,      \* the LendingInstruction handed to pack
    packed,     \* what pack returned for instr
    call,       \* the builder that was called and its arguments, in order
    built       \* what the builder returned

vars == <<pc, input, unpacked, instr, packed, call, built>>

(***************************************************************************)
(* Bounds of the model.                                                    *)
(***************************************************************************)
\* longest call_back_data / trailing byte run that is generated
MaxTail == 37
\* number of distinct 32-byte identities that are generated
NumKeys == 2
\* the builders' identity arguments repeat with period 1 .. MaxAlias
\* (and are all distinct in one further pattern)
MaxAlias == 3
\* longest reserve or oracle list handed to a builder
MaxReserves == 2

PUBKEY_BYTES == 32

Byte == 0 .. 255

(***************************************************************************)
(* Result<T, ProgramError>.  A field reader returns the value together     *)
(* with the unconsumed remainder; unpack returns the instruction alone.    *)
(* An Err carries no value.                                                *)
(***************************************************************************)
OkRest(v, rest) == [ok |-> TRUE, value |-> v, rest |-> rest]

Ok(v) == [ok |-> TRUE, value |-> v]

Err(e) == [ok |-> FALSE, err |-> e]

\* LendingError::InstructionUnpackError, the one error unpack itself raises
InstructionUnpackError == "InstructionUnpackError"

\* the two failures of the field readers
TruncatedInput == "TruncatedInput"

InvalidFieldEncoding == "InvalidFieldEncoding"

(***************************************************************************)
(* Integer conversions.                                                    *)
(***************************************************************************)
\* the u64 whose value is the small number n (n < 2^31)
U64(n) == <<n % 65536, n \div 65536, 0, 0>>

\* u64::to_be_bytes: most significant byte first
u64_to_be_bytes(v) ==
    << v[4] \div 256, v[4] % 256, v[3] \div 256, v[3] % 256,
       v[2] \div 256, v[2] % 256, v[1] \div 256, v[1] % 256 >>

\* u64::to_le_bytes: least significant byte first
u64_to_le_bytes(v) ==
    << v[1] % 256, v[1] \div 256, v[2] % 256, v[2] \div 256,
       v[3] % 256, v[3] \div 256, v[4] % 256, v[4] \div 256 >>

\* u16::to_le_bytes
u16_to_le_bytes(n) == << n % 256, n \div 256 >>

\* u64::from_le_bytes of an 8-byte slice
u64_from_le_bytes(b) ==
    << b[1] + 256 * b[2], b[3] + 256 * b[4],
       b[5] + 256 * b[6], b[7] + 256 * b[8] >>

\* u16::from_le_bytes of a 2-byte slice
u16_from_le_bytes(b) == b[1] + 256 * b[2]

\* input[n..]
Drop(s, n) == SubSeq(s, n + 1, Len(s))

\* input[..n]
Take(s, n) == SubSeq(s, 1, n)

(***************************************************************************)
(* util::unpack_util: each reader consumes a fixed number of bytes from    *)
(* the front of the slice and returns the value and the remainder.         *)
(***************************************************************************)
unpack_u8(input_) ==
    IF Len(input_) < 1 THEN Err(TruncatedInput)
    ELSE OkRest(input_[1], Drop(input_, 1))

unpack_u16(input_) ==
    IF Len(input_) < 2 THEN Err(TruncatedInput)
    ELSE OkRest(u16_from_le_bytes(Take(input_, 2)), Drop(input_, 2))

unpack_u64(input_) ==
    IF Len(input_) < 8 THEN Err(TruncatedInput)
    ELSE OkRest(u64_from_le_bytes(Take(input_, 8)), Drop(input_, 8))

unpack_bool(input_) ==
    IF Len(input_) < 1 THEN Err(TruncatedInput)
    ELSE IF input_[1] = 0 THEN OkRest(FALSE, Drop(input_, 1))
    ELSE IF input_[1] = 1 THEN OkRest(TRUE, Drop(input_, 1))
    ELSE Err(InvalidFieldEncoding)

unpack_bytes32(input_) ==
    IF Len(input_) < 32 THEN Err(TruncatedInput)
    ELSE OkRest(Take(input_, 32), Drop(input_, 32))

unpack_pubkey(input_) ==
    IF Len(input_) < PUBKEY_BYTES THEN Err(TruncatedInput)
    ELSE OkRest(Take(input_, PUBKEY_BYTES), Drop(input_, PUBKEY_BYTES))

\* one reader, chosen by the type of the field
unpack_field(kind, input_) ==
    CASE kind = "u8"      -> unpack_u8(input_)
      [] kind = "u16"     -> unpack_u16(input_)
      [] kind = "u64"     -> unpack_u64(input_)
      [] kind = "bool"    -> unpack_bool(input_)
      [] kind = "bytes32" -> unpack_bytes32(input_)
      [] kind = "pubkey"  -> unpack_pubkey(input_)

(***************************************************************************)
(* `let (a, rest) = unpack_x(rest)?; let (b, rest) = unpack_y(rest)?; ...` *)
(* The readers named by kinds are applied in order, each to the remainder  *)
(* left by the one before; the first Err ends the chain and is the result  *)
(* (the ? operator).  On success value is the tuple of the values read.    *)
(***************************************************************************)
RECURSIVE unpack_chain(_, _, _)
unpack_chain(kinds, rest, acc) ==
    IF kinds = <<>> THEN OkRest(acc, rest)
    ELSE LET r == unpack_field(Head(kinds), rest)
         IN  IF r.ok
             THEN unpack_chain(Tail(kinds), r.rest, Append(acc, r.value))
             ELSE Err(r.err)

(***************************************************************************)
(* enum LendingInstruction: one record per variant, with the variant's     *)
(* own field names.                                                        *)
(***************************************************************************)
InitLendingMarket(owner, quote_currency) ==
    [variant |-> "InitLendingMarket", owner |-> owner,
     quote_currency |-> quote_currency]

SetLendingMarketOwner(new_owner) ==
    [variant |-> "SetLendingMarketOwner", new_owner |-> new_owner]

InitReserve(total_mining_speed, kink_util_rate, use_pyth_oracle, is_lp) ==
    [variant |-> "InitReserve", total_mining_speed |-> total_mining_speed,
     kink_util_rate |-> kink_util_rate, use_pyth_oracle |-> use_pyth_oracle,
     is_lp |-> is_lp]

RefreshReserve == [variant |-> "RefreshReserve"]

DepositReserveLiquidity(liquidity_amount) ==
    [variant |-> "DepositReserveLiquidity", liquidity_amount |-> liquidity_amount]

RedeemReserveCollateral(collateral_amount) ==
    [variant |-> "RedeemReserveCollateral", collateral_amount |-> collateral_amount]

InitObligation == [variant |-> "InitObligation"]

RefreshObligation == [variant |-> "RefreshObligation"]

DepositObligationCollateral(collateral_amount) ==
    [variant |-> "DepositObligationCollateral",
     collateral_amount |-> collateral_amount]

WithdrawObligationCollateral(collateral_amount) ==
    [variant |-> "WithdrawObligationCollateral",
     collateral_amount |-> collateral_amount]

BorrowObligationLiquidity(liquidity_amount) ==
    [variant |-> "BorrowObligationLiquidity", liquidity_amount |-> liquidity_amount]

RepayObligationLiquidity(liquidity_amount) ==
    [variant |-> "RepayObligationLiquidity", liquidity_amount |-> liquidity_amount]

LiquidateObligation(liquidity_amount) ==
    [variant |-> "LiquidateObligation", liquidity_amount |-> liquidity_amount]

FlashLoan(amount, call_back_data) ==
    [variant |-> "FlashLoan", amount |-> amount, call_back_data |-> call_back_data]

SetConfig == [variant |-> "SetConfig"]

InitMining == [variant |-> "InitMining"]

RefreshMining == [variant |-> "RefreshMining"]

DepositMining(amount) == [variant |-> "DepositMining", amount |-> amount]

WithdrawMining(amount) == [variant |-> "WithdrawMining", amount |-> amount]

ClaimMiningMine == [variant |-> "ClaimMiningMine"]

ClaimObligationMine == [variant |-> "ClaimObligationMine"]

ClaimOwnerFee == [variant |-> "ClaimOwnerFee"]

ReceivePendingOwner == [variant |-> "ReceivePendingOwner"]

RefreshReserves == [variant |-> "RefreshReserves"]

LiquidateObligation2(liquidity_amount) ==
    [variant |-> "LiquidateObligation2", liquidity_amount |-> liquidity_amount]

ClaimMine(claim_times, claim_ratio) ==
    [variant |-> "ClaimMine", claim_times |-> claim_times,
     claim_ratio |-> claim_ratio]

(***************************************************************************)
(* LendingInstruction::unpack, one operator per group of match arms.       *)
(***************************************************************************)
\* tag 0
unpack_InitLendingMarket(rest) ==
    LET r == unpack_chain(<<"pubkey", "bytes32">>, rest, <<>>)
    IN  IF r.ok THEN Ok(InitLendingMarket(r.value[1], r.value[2]))
        ELSE Err(r.err)

\* tag 1
unpack_SetLendingMarketOwner(rest) ==
    LET r == unpack_chain(<<"pubkey">>, rest, <<>>)
    IN  IF r.ok THEN Ok(SetLendingMarketOwner(r.value[1])) ELSE Err(r.err)

\* the tag-2 layout with the legacy host fee percentage read two bytes wide
InitReserveLayout_wide ==
    << "u8", "u8", "u8", "u8", "u8", "u8", "u8",
       "u64", "u64", "u64", "u16",
       "u64", "u64", "bool", "bool" >>

\* tag 2: seven legacy u8, three legacy u64 and one legacy u8 are read and
\* dropped, then the four fields that are kept
InitReserveLayout ==
    << "u8", "u8", "u8", "u8", "u8", "u8", "u8",
       "u64", "u64", "u64", "u8",
       "u64", "u64", "bool", "bool" >>

\* tag 2 with is_lp read as a plain byte, any non-zero byte taken as true
unpack_InitReserve_lenient(rest) ==
    LET r == unpack_chain(<< "u8", "u8", "u8", "u8", "u8", "u8", "u8",
                             "u64", "u64", "u64", "u8",
                             "u64", "u64", "bool", "u8" >>, rest, <<>>)
    IN  IF r.ok
        THEN Ok(InitReserve(r.value[12], r.value[13], r.value[14],
                            r.value[15] # 0))
        ELSE Err(r.err)

unpack_InitReserve(rest) ==
    LET r == unpack_chain(InitReserveLayout, rest, <<>>)
    IN  IF r.ok
        THEN Ok(InitReserve(r.value[12], r.value[13], r.value[14], r.value[15]))
        ELSE Err(r.err)

\* the variant of each tag that carries a single u64
AmountVariant(tag, amount) ==
    CASE tag = 4  -> DepositReserveLiquidity(amount)
      [] tag = 5  -> RedeemReserveCollateral(amount)
      [] tag = 8  -> DepositObligationCollateral(amount)
      [] tag = 9  -> WithdrawObligationCollateral(amount)
      [] tag = 10 -> BorrowObligationLiquidity(amount)
      [] tag = 11 -> RepayObligationLiquidity(amount)
      [] tag = 12 -> LiquidateObligation(amount)
      [] tag = 18 -> DepositMining(amount)
      [] tag = 19 -> WithdrawMining(amount)
      [] tag = 25 -> LiquidateObligation2(amount)

\* the one-u64 arms rejecting a buffer with bytes after the amount
unpack_amount_strict(tag, rest) ==
    LET r == unpack_chain(<<"u64">>, rest, <<>>)
    IN  IF ~r.ok THEN Err(r.err)
        ELSE IF r.rest # <<>> THEN Err(InstructionUnpackError)
        ELSE Ok(AmountVariant(tag, r.value[1]))

\* tags 4, 5, 8, 9, 10, 11, 12, 18, 19, 25
unpack_amount(tag, rest) ==
    LET r == unpack_chain(<<"u64">>, rest, <<>>)
    IN  IF r.ok THEN Ok(AmountVariant(tag, r.value[1])) ELSE Err(r.err)

\* tag 13 with the callback data taken from the slice before the amount
\* was consumed
unpack_FlashLoan_stale_rest(rest) ==
    LET r == unpack_chain(<<"u64">>, rest, <<>>)
    IN  IF r.ok THEN Ok(FlashLoan(r.value[1], rest)) ELSE Err(r.err)

\* tag 13: the amount, then everything that is left
unpack_FlashLoan(rest) ==
    LET r == unpack_chain(<<"u64">>, rest, <<>>)
    IN  IF r.ok THEN Ok(FlashLoan(r.value[1], r.rest)) ELSE Err(r.err)

\* tag 26 with claim_ratio read as a single byte
unpack_ClaimMine_narrow(rest) ==
    LET r == unpack_chain(<<"u16", "u8">>, rest, <<>>)
    IN  IF r.ok THEN Ok(ClaimMine(r.value[1], r.value[2])) ELSE Err(r.err)

\* tag 26
unpack_ClaimMine(rest) ==
    LET r == unpack_chain(<<"u16", "u16">>, rest, <<>>)
    IN  IF r.ok THEN Ok(ClaimMine(r.value[1], r.value[2])) ELSE Err(r.err)

\* the match on the tag
unpack_tag(tag, rest) ==
    CASE tag = 0  -> unpack_InitLendingMarket(rest)
      [] tag = 1  -> unpack_SetLendingMarketOwner(rest)
      [] tag = 2  -> unpack_InitReserve(rest)
      [] tag = 3  -> Ok(RefreshReserve)
      [] tag \in {4, 5} -> unpack_amount(tag, rest)
      [] tag = 6  -> Ok(InitObligation)
      [] tag = 7  -> Ok(RefreshObligation)
      [] tag \in {8, 9, 10, 11, 12} -> unpack_amount(tag, rest)
      [] tag = 13 -> unpack_FlashLoan(rest)
      [] tag = 14 -> Ok(SetConfig)
      [] tag = 16 -> Ok(InitMining)
      [] tag = 17 -> Ok(RefreshMining)
      [] tag \in {18, 19} -> unpack_amount(tag, rest)
      [] tag = 20 -> Ok(ClaimMiningMine)
      [] tag = 21 -> Ok(ClaimObligationMine)
      [] tag = 22 -> Ok(ClaimOwnerFee)
      [] tag = 23 -> Ok(ReceivePendingOwner)
      [] tag = 24 -> Ok(RefreshReserves)
      [] tag = 25 -> unpack_amount(tag, rest)
      [] tag = 26 -> unpack_ClaimMine(rest)
      [] OTHER    -> Err(InstructionUnpackError)

\* unpack that takes the tag of an empty buffer to be 0
unpack_default_tag(buf) ==
    IF buf = <<>> THEN unpack_tag(0, <<>>)
    ELSE unpack_tag(Head(buf), Tail(buf))

\* unpack that numbers the variants without the gap at 15
unpack_gapless(buf) ==
    IF buf = <<>> THEN Err(InstructionUnpackError)
    ELSE unpack_tag(IF Head(buf) >= 15 THEN Head(buf) + 1 ELSE Head(buf),
                    Tail(buf))

\* input.split_first().ok_or(InstructionUnpackError)?, then the match
unpack(buf) ==
    IF buf = <<>> THEN Err(InstructionUnpackError)
    ELSE unpack_tag(Head(buf), Tail(buf))

(***************************************************************************)
(* LendingInstruction::pack.  The buffer starts empty; an arm pushes the   *)
(* tag and the fields; the catch-all arm pushes nothing.                   *)
(***************************************************************************)
\* pack_amount writing the amount most significant byte first
\* the one-u64 arms pushing the tag of the next variant
pack_amount_next_tag(tag, amount) == <<tag + 1>> \o u64_to_le_bytes(amount)

pack_amount_be(tag, amount) == <<tag>> \o u64_to_be_bytes(amount)

\* buf.push(tag); buf.extend_from_slice(&amount.to_le_bytes())
pack_amount(tag, amount) == <<tag>> \o u64_to_le_bytes(amount)

pack(self) ==
    CASE self.variant = "RefreshReserves" -> <<24>>
      [] self.variant = "DepositReserveLiquidity" ->
            pack_amount(4, self.liquidity_amount)
      [] self.variant = "RedeemReserveCollateral" ->
            pack_amount(5, self.collateral_amount)
      [] self.variant = "InitObligation" -> <<6>>
      [] self.variant = "RefreshObligation" -> <<7>>
      [] self.variant = "DepositObligationCollateral" ->
            pack_amount(8, self.collateral_amount)
      [] self.variant = "WithdrawObligationCollateral" ->
            pack_amount(9, self.collateral_amount)
      [] self.variant = "BorrowObligationLiquidity" ->
            pack_amount(10, self.liquidity_amount)
      [] self.variant = "RepayObligationLiquidity" ->
            pack_amount(11, self.liquidity_amount)
      [] self.variant = "InitMining" -> <<16>>
      [] self.variant = "RefreshMining" -> <<17>>
      [] self.variant = "DepositMining" -> pack_amount(18, self.amount)
      [] self.variant = "WithdrawMining" -> pack_amount(19, self.amount)
      [] self.variant = "ClaimMiningMine" -> <<20>>
      [] self.variant = "ClaimObligationMine" -> <<21>>
      [] self.variant = "LiquidateObligation2" ->
            pack_amount(25, self.liquidity_amount)
      [] self.variant = "ClaimMine" ->
            <<26>> \o u16_to_le_bytes(self.claim_times)
                   \o u16_to_le_bytes(self.claim_ratio)
      [] OTHER -> <<>>

(***************************************************************************)
(* solana_program::instruction.  An AccountMeta is an identity with its    *)
(* two flags; an Instruction is the target program, the accounts in order  *)
(* and the data.                                                           *)
(***************************************************************************)
\* AccountMeta::new(pubkey, is_signer): writable
AccountMeta_new(pubkey, is_signer) ==
    [pubkey |-> pubkey, is_signer |-> is_signer, is_writable |-> TRUE]

\* AccountMeta::new_readonly(pubkey, is_signer)
AccountMeta_new_readonly(pubkey, is_signer) ==
    [pubkey |-> pubkey, is_signer |-> is_signer, is_writable |-> FALSE]

Instruction(program_id, accounts, data) ==
    [program_id |-> program_id, accounts |-> accounts, data |-> data]

\* a call that ended in a panic returns nothing
Panicked == [panic |-> "index out of bounds"]

\* spl_token::id(), a fixed identity
spl_token_id == [i \in 1 .. 32 |-> (201 * i) % 256]

\* Pubkey::find_program_address(&[seed], program_id).0: a deterministic
\* function of the seed and the program identity, owned by the address
\* derivation of the runtime; it is stood for by a byte-wise mix of the two
find_program_address(seed, program_id) ==
    [i \in 1 .. 32 |-> (3 * seed[i] + 5 * program_id[i] + 255) % 256]

\* readonly_metas that keeps only the first reference to each identity
readonly_metas_dedup(pubkeys) ==
    LET keep == { i \in 1 .. Len(pubkeys) :
                    \A j \in 1 .. (i - 1) : pubkeys[j] # pubkeys[i] }
    IN  [k \in 1 .. Cardinality(keep) |->
            AccountMeta_new_readonly(
                pubkeys[CHOOSE i \in keep :
                          Cardinality({ j \in keep : j <= i }) = k],
                FALSE)]

\* reserve_pubkeys.into_iter().map(|pubkey| AccountMeta::new_readonly(pubkey, false))
readonly_metas(pubkeys) ==
    [i \in 1 .. Len(pubkeys) |-> AccountMeta_new_readonly(pubkeys[i], FALSE)]

(***************************************************************************)
(* The instruction builders.                                               *)
(***************************************************************************)
\* refresh_reserves that pushes all the reserves and then all the oracles
refresh_reserves_grouped(program_id, reserves, oracles) ==
    IF Len(oracles) < Len(reserves) THEN Panicked
    ELSE Instruction(program_id,
            [i \in 1 .. Len(reserves) |-> AccountMeta_new(reserves[i], FALSE)]
              \o [i \in 1 .. Len(reserves) |->
                    AccountMeta_new_readonly(oracles[i], FALSE)],
            pack(RefreshReserves))

\* the loop of refresh_reserves: for i in 0..reserves.len() push reserves[i]
\* and oracles[i]; indexing oracles past its end panics
RECURSIVE refresh_reserves_loop(_, _, _, _)
refresh_reserves_loop(reserves, oracles, i, accounts) ==
    IF i > Len(reserves) THEN [panicked |-> FALSE, accounts |-> accounts]
    ELSE IF i > Len(oracles) THEN [panicked |-> TRUE, accounts |-> accounts]
    ELSE refresh_reserves_loop(reserves, oracles, i + 1,
            accounts \o << AccountMeta_new(reserves[i], FALSE),
                           AccountMeta_new_readonly(oracles[i], FALSE) >>)

refresh_reserves(program_id, reserves, oracles) ==
    LET loop == refresh_reserves_loop(reserves, oracles, 1, <<>>)
    IN  IF loop.panicked THEN Panicked
        ELSE Instruction(program_id, loop.accounts, pack(RefreshReserves))

deposit_reserve_liquidity(program_id, liquidity_amount, source_liquidity_pubkey, destination_collateral_pubkey, reserve_pubkey, reserve_collateral_mint_pubkey, reserve_liquidity_supply_pubkey, lending_market_pubkey, lending_market_authority_pubkey, user_transfer_authority_pubkey) ==
    Instruction(program_id,
        << AccountMeta_new(source_liquidity_pubkey, FALSE),
           AccountMeta_new(destination_collateral_pubkey, FALSE),
           AccountMeta_new(reserve_pubkey, FALSE),
           AccountMeta_new(reserve_collateral_mint_pubkey, FALSE),
           AccountMeta_new(reserve_liquidity_supply_pubkey, FALSE),
           AccountMeta_new_readonly(lending_market_pubkey, FALSE),
           AccountMeta_new_readonly(lending_market_authority_pubkey, FALSE),
           AccountMeta_new_readonly(user_transfer_authority_pubkey, TRUE),
           AccountMeta_new_readonly(spl_token_id, FALSE) >>,
        pack(DepositReserveLiquidity(liquidity_amount)))

\* redeem_reserve_collateral with the destination right after the source
redeem_reserve_collateral_dest_first(program_id, collateral_amount, source_collateral_pubkey, destination_liquidity_pubkey, reserve_pubkey, reserve_collateral_mint_pubkey, reserve_liquidity_supply_pubkey, lending_market_pubkey, lending_market_authority_pubkey, user_transfer_authority_pubkey) ==
    Instruction(program_id,
        << AccountMeta_new(source_collateral_pubkey, FALSE),
           AccountMeta_new(destination_liquidity_pubkey, FALSE),
           AccountMeta_new(reserve_pubkey, FALSE),
           AccountMeta_new(reserve_collateral_mint_pubkey, FALSE),
           AccountMeta_new(reserve_liquidity_supply_pubkey, FALSE),
           AccountMeta_new_readonly(lending_market_pubkey, FALSE),
           AccountMeta_new_readonly(lending_market_authority_pubkey, FALSE),
           AccountMeta_new_readonly(user_transfer_authority_pubkey, TRUE),
           AccountMeta_new_readonly(spl_token_id, FALSE) >>,
        pack(RedeemReserveCollateral(collateral_amount)))

redeem_reserve_collateral(program_id, collateral_amount, source_collateral_pubkey, destination_liquidity_pubkey, reserve_pubkey, reserve_collateral_mint_pubkey, reserve_liquidity_supply_pubkey, lending_market_pubkey, lending_market_authority_pubkey, user_transfer_authority_pubkey) ==
    Instruction(program_id,
        << AccountMeta_new(source_collateral_pubkey, FALSE),
           AccountMeta_new(reserve_pubkey, FALSE),
           AccountMeta_new(reserve_collateral_mint_pubkey, FALSE),
           AccountMeta_new(reserve_liquidity_supply_pubkey, FALSE),
           AccountMeta_new_readonly(lending_market_pubkey, FALSE),
           AccountMeta_new_readonly(lending_market_authority_pubkey, FALSE),
           AccountMeta_new_readonly(user_transfer_authority_pubkey, TRUE),
           AccountMeta_new_readonly(spl_token_id, FALSE),
           AccountMeta_new(destination_liquidity_pubkey, FALSE) >>,
        pack(RedeemReserveCollateral(collateral_amount)))

init_obligation(program_id, obligation_pubkey, lending_market_pubkey, obligation_owner_pubkey) ==
    Instruction(program_id,
        << AccountMeta_new(obligation_pubkey, FALSE),
           AccountMeta_new_readonly(lending_market_pubkey, FALSE),
           AccountMeta_new_readonly(obligation_owner_pubkey, TRUE),
           AccountMeta_new_readonly(spl_token_id, FALSE) >>,
        pack(InitObligation))

refresh_obligation(program_id, obligation_pubkey, reserve_pubkeys) ==
    Instruction(program_id,
        << AccountMeta_new(obligation_pubkey, FALSE) >>
            \o readonly_metas(reserve_pubkeys),
        pack(RefreshObligation))

deposit_obligation_collateral(program_id, collateral_amount, source_collateral_pubkey, destination_collateral_pubkey, deposit_reserve_pubkey, obligation_pubkey, lending_market_pubkey, lending_market_authority_pubkey, obligation_owner_pubkey, user_transfer_authority_pubkey, reserve_pubkeys) ==
    Instruction(program_id,
        << AccountMeta_new(source_collateral_pubkey, FALSE),
           AccountMeta_new(destination_collateral_pubkey, FALSE),
           AccountMeta_new_readonly(deposit_reserve_pubkey, FALSE),
           AccountMeta_new(obligation_pubkey, FALSE),
           AccountMeta_new_readonly(lending_market_pubkey, FALSE),
           AccountMeta_new_readonly(lending_market_authority_pubkey, FALSE),
           AccountMeta_new_readonly(obligation_owner_pubkey, TRUE),
           AccountMeta_new_readonly(user_transfer_authority_pubkey, TRUE),
           AccountMeta_new_readonly(spl_token_id, FALSE) >>
            \o readonly_metas(reserve_pubkeys),
        pack(DepositObligationCollateral(collateral_amount)))

\* withdraw_obligation_collateral deriving the authority from the owner
withdraw_obligation_collateral_owner_seed(program_id, collateral_amount, source_collateral_pubkey, destination_collateral_pubkey, withdraw_reserve_pubkey, obligation_pubkey, lending_market_pubkey, obligation_owner_pubkey) ==
    LET lending_market_authority_pubkey ==
            find_program_address(obligation_owner_pubkey, program_id)
    IN  Instruction(program_id,
            << AccountMeta_new(source_collateral_pubkey, FALSE),
               AccountMeta_new(destination_collateral_pubkey, FALSE),
               AccountMeta_new_readonly(withdraw_reserve_pubkey, FALSE),
               AccountMeta_new(obligation_pubkey, FALSE),
               AccountMeta_new_readonly(lending_market_pubkey, FALSE),
               AccountMeta_new_readonly(lending_market_authority_pubkey, FALSE),
               AccountMeta_new_readonly(obligation_owner_pubkey, TRUE),
               AccountMeta_new_readonly(spl_token_id, FALSE) >>,
            pack(WithdrawObligationCollateral(collateral_amount)))

withdraw_obligation_collateral(program_id, collateral_amount, source_collateral_pubkey, destination_collateral_pubkey, withdraw_reserve_pubkey, obligation_pubkey, lending_market_pubkey, obligation_owner_pubkey) ==
    LET lending_market_authority_pubkey ==
            find_program_address(lending_market_pubkey, program_id)
    IN  Instruction(program_id,
            << AccountMeta_new(source_collateral_pubkey, FALSE),
               AccountMeta_new(destination_collateral_pubkey, FALSE),
               AccountMeta_new_readonly(withdraw_reserve_pubkey, FALSE),
               AccountMeta_new(obligation_pubkey, FALSE),
               AccountMeta_new_readonly(lending_market_pubkey, FALSE),
               AccountMeta_new_readonly(lending_market_authority_pubkey, FALSE),
               AccountMeta_new_readonly(obligation_owner_pubkey, TRUE),
               AccountMeta_new_readonly(spl_token_id, FALSE) >>,
            pack(WithdrawObligationCollateral(collateral_amount)))

\* borrow_obligation_liquidity carrying the data of a repay instruction
borrow_obligation_liquidity_repay_data(program_id, liquidity_amount, source_liquidity_pubkey, destination_liquidity_pubkey, borrow_reserve_pubkey, borrow_reserve_liquidity_fee_receiver_pubkey, obligation_pubkey, lending_market_pubkey, lending_market_authority_pubkey, obligation_owner_pubkey, larix_oracle_program_pubkey, mine_mint_pubkey) ==
    Instruction(program_id,
        << AccountMeta_new(source_liquidity_pubkey, FALSE),
           AccountMeta_new(destination_liquidity_pubkey, FALSE),
           AccountMeta_new(borrow_reserve_pubkey, FALSE),
           AccountMeta_new(obligation_pubkey, FALSE),
           AccountMeta_new_readonly(lending_market_pubkey, FALSE),
           AccountMeta_new_readonly(lending_market_authority_pubkey, FALSE),
           AccountMeta_new_readonly(obligation_owner_pubkey, TRUE),
           AccountMeta_new_readonly(spl_token_id, FALSE),
           AccountMeta_new(borrow_reserve_liquidity_fee_receiver_pubkey, FALSE),
           AccountMeta_new_readonly(larix_oracle_program_pubkey, FALSE),
           AccountMeta_new_readonly(mine_mint_pubkey, FALSE) >>,
        pack(RepayObligationLiquidity(liquidity_amount)))

borrow_obligation_liquidity(program_id, liquidity_amount, source_liquidity_pubkey, destination_liquidity_pubkey, borrow_reserve_pubkey, borrow_reserve_liquidity_fee_receiver_pubkey, obligation_pubkey, lending_market_pubkey, lending_market_authority_pubkey, obligation_owner_pubkey, larix_oracle_program_pubkey, mine_mint_pubkey) ==
    Instruction(program_id,
        << AccountMeta_new(source_liquidity_pubkey, FALSE),
           AccountMeta_new(destination_liquidity_pubkey, FALSE),
           AccountMeta_new(borrow_reserve_pubkey, FALSE),
           AccountMeta_new(obligation_pubkey, FALSE),
           AccountMeta_new_readonly(lending_market_pubkey, FALSE),
           AccountMeta_new_readonly(lending_market_authority_pubkey, FALSE),
           AccountMeta_new_readonly(obligation_owner_pubkey, TRUE),
           AccountMeta_new_readonly(spl_token_id, FALSE),
           AccountMeta_new(borrow_reserve_liquidity_fee_receiver_pubkey, FALSE),
           AccountMeta_new_readonly(larix_oracle_program_pubkey, FALSE),
           AccountMeta_new_readonly(mine_mint_pubkey, FALSE) >>,
        pack(BorrowObligationLiquidity(liquidity_amount)))

repay_obligation_liquidity(program_id, liquidity_amount, source_liquidity_pubkey, destination_liquidity_pubkey, repay_reserve_pubkey, obligation_pubkey, lending_market_pubkey, user_transfer_authority_pubkey) ==
    Instruction(program_id,
        << AccountMeta_new(source_liquidity_pubkey, FALSE),
           AccountMeta_new(destination_liquidity_pubkey, FALSE),
           AccountMeta_new(repay_reserve_pubkey, FALSE),
           AccountMeta_new(obligation_pubkey, FALSE),
           AccountMeta_new_readonly(lending_market_pubkey, FALSE),
           AccountMeta_new_readonly(user_transfer_authority_pubkey, TRUE),
           AccountMeta_new_readonly(spl_token_id, FALSE) >>,
        pack(RepayObligationLiquidity(liquidity_amount)))

claim_obligation_mine(program_id, obligation_pubkey, mine_supply_pubkey, destination_account_pubkey, obligation_owner, lending_market_pubkey, lending_market_authority_pubkey) ==
    Instruction(program_id,
        << AccountMeta_new(obligation_pubkey, FALSE),
           AccountMeta_new(mine_supply_pubkey, FALSE),
           AccountMeta_new(destination_account_pubkey, FALSE),
           AccountMeta_new_readonly(obligation_owner, FALSE),
           AccountMeta_new_readonly(lending_market_pubkey, FALSE),
           AccountMeta_new_readonly(lending_market_authority_pubkey, FALSE),
           AccountMeta_new_readonly(spl_token_id, FALSE) >>,
        pack(ClaimObligationMine))

(***************************************************************************)
(* The inputs the calls are made with.  Buffers are built from raw bytes,  *)
(* field by field, independently of pack; instructions are built from      *)
(* values, independently of unpack.                                        *)
(***************************************************************************)
\* n bytes of a fixed pattern; seed 0 gives n zero bytes
Pat(n, seed) == [i \in 1 .. n |-> (seed * i) % 256]

\* 32-byte identities
Keys == { Pat(32, 2 * k + 1) : k \in 1 .. NumKeys }

\* quote currencies: "USD" null padded, or a mint identity
QuoteCurrencies == { <<85, 83, 68>> \o Pat(29, 0), Pat(32, 11) }

\* the 32 legacy bytes of a tag-2 buffer
LegacyBytes == { Pat(32, 0), Pat(32, 37), Pat(32, 255) }

\* 8-byte fields: 0, 5, 7, 42, 1000, u64::MAX and 0x0807060504030201
U64Bytes ==
    { Pat(8, 0), <<5>> \o Pat(7, 0), <<7>> \o Pat(7, 0), <<42>> \o Pat(7, 0),
      <<232, 3>> \o Pat(6, 0),
      <<255, 255, 255, 255, 255, 255, 255, 255>>, Pat(8, 1) }

\* the same seven numbers as u64 values
U64Values ==
    { U64(0), U64(5), U64(7), U64(42), U64(1000),
      <<65535, 65535, 65535, 65535>>, <<513, 1027, 1541, 2055>> }

\* 2-byte fields: 0, 100, 10000, u16::MAX and 0x0201
U16Bytes == { <<0, 0>>, <<100, 0>>, <<16, 39>>, <<255, 255>>, <<1, 2>> }

U16Values == { 0, 100, 10000, 65535, 513 }

\* the byte of a bool field: the two canonical encodings and two others
BoolBytes == { 0, 1, 2, 255 }

\* call_back_data, and the bytes that may follow a complete buffer
Tails == { Pat(n, seed) : n \in 0 .. MaxTail, seed \in {1, 7} }

Extras == { <<9>>, <<0, 200>> }

\* the k-th identity
Pubkey(k) == Pat(32, 2 * k + 1)

\* the i-th identity argument of a builder call under aliasing pattern p:
\* all arguments distinct for p = 0, repeating with period p otherwise
Arg(p, i) == Pubkey(IF p = 0 THEN i ELSE ((i - 1) % p) + 1)

AliasPatterns == 0 .. MaxAlias

\* reserve and oracle lists: every list of at most MaxReserves identities,
\* repetitions included
ReserveLists ==
    UNION { [1 .. n -> {Pubkey(1), Pubkey(2), Pubkey(21)}] : n \in 0 .. MaxReserves }

\* the tags unpack has an arm for
RegisteredTags == (0 .. 14) \cup (16 .. 26)

AmountTags == {4, 5, 8, 9, 10, 11, 12, 18, 19, 25}

FieldlessTags == {3, 6, 7, 14, 16, 17, 20, 21, 22, 23, 24}

\* buffers that hold the tag and every fixed field of the tag's layout,
\* and for tag 13 a tail of any length
FullBuffers ==
    { <<0>> \o k \o q : k \in Keys, q \in QuoteCurrencies }
    \cup { <<1>> \o k : k \in Keys }
    \cup { <<2>> \o l \o a \o b \o <<x, y>> :
             l \in LegacyBytes, a \in U64Bytes, b \in U64Bytes,
             x \in BoolBytes, y \in BoolBytes }
    \cup { <<t>> \o a : t \in AmountTags, a \in U64Bytes }
    \cup { <<13>> \o a \o c : a \in U64Bytes, c \in Tails }
    \cup { <<26>> \o x \o y : x \in U16Bytes, y \in U16Bytes }
    \cup { <<t>> : t \in FieldlessTags }

\* every buffer unpack is called with: the full buffers, all their
\* prefixes (the empty buffer among them), the full buffers followed by
\* extra bytes, and buffers that start with a tag that has no arm
Buffers ==
    UNION { { Take(b, n) : n \in 0 .. Len(b) } : b \in FullBuffers }
    \cup { b \o x : b \in FullBuffers, x \in Extras }
    \cup { <<t>> \o x : t \in Byte \ RegisteredTags,
                        x \in Extras \cup { <<>>, Pat(8, 1) } }

\* every instruction pack is called with
Instructions ==
    { InitLendingMarket(k, q) : k \in Keys, q \in QuoteCurrencies }
    \cup { SetLendingMarketOwner(k) : k \in Keys }
    \cup { InitReserve(a, b, x, y) :
             a \in U64Values, b \in U64Values, x \in BOOLEAN, y \in BOOLEAN }
    \cup { AmountVariant(t, a) : t \in AmountTags, a \in U64Values }
    \cup { FlashLoan(a, c) : a \in U64Values, c \in Tails }
    \cup { ClaimMine(x, y) : x \in U16Values, y \in U16Values }
    \cup { RefreshReserve, InitObligation, RefreshObligation, SetConfig,
           InitMining, RefreshMining, ClaimMiningMine, ClaimObligationMine,
           ClaimOwnerFee, ReceivePendingOwner, RefreshReserves }

(***************************************************************************)
(* The state machine: every call is made on fresh arguments and its        *)
(* result lives until the caller drops it.  A caller may pack the          *)
(* instruction it has just unpacked, or unpack the bytes it has just       *)
(* packed.                                                                 *)
(***************************************************************************)
NoInstruction == [variant |-> "none"]

NoResult == [ok |-> FALSE, err |-> "none"]

NoCall == [fn |-> "none", args |-> <<>>]

NoBuilt == [none |-> TRUE]

Init ==
    /\ pc = "idle"
    /\ input = <<>>
    /\ unpacked = NoResult
    /\ instr = NoInstruction
    /\ packed = <<>>
    /\ call = NoCall
    /\ built = NoBuilt

\* LendingInstruction::unpack(b)
CallUnpack ==
    /\ pc = "idle"
    /\ \E b \in Buffers :
          /\ input' = b
          /\ unpacked' = unpack(b)
    /\ pc' = "unpacked"
    /\ UNCHANGED <<instr, packed, call, built>>

\* d.pack()
CallPack ==
    /\ pc = "idle"
    /\ \E d \in Instructions :
          /\ instr' = d
          /\ packed' = pack(d)
    /\ pc' = "packed"
    /\ UNCHANGED <<input, unpacked, call, built>>

\* LendingInstruction::unpack(b)?.pack()
PackUnpacked ==
    /\ pc = "unpacked"
    /\ unpacked.ok
    /\ instr' = unpacked.value
    /\ packed' = pack(unpacked.value)
    /\ pc' = "repacked"
    /\ UNCHANGED <<input, unpacked, call, built>>

\* LendingInstruction::unpack(&d.pack())
UnpackPacked ==
    /\ pc = "packed"
    /\ input' = packed
    /\ unpacked' = unpack(packed)
    /\ pc' = "reunpacked"
    /\ UNCHANGED <<instr, packed, call, built>>

(***************************************************************************)
(* The builders, each called on fresh arguments.                           *)
(***************************************************************************)
Call_refresh_reserves ==
    /\ pc = "idle"
    /\ \E p \in AliasPatterns, rs \in ReserveLists, os \in ReserveLists :
          /\ call' = [fn |-> "refresh_reserves",
                      args |-> <<Arg(p, 1), rs, os>>]
          /\ built' = refresh_reserves(Arg(p, 1), rs, os)
    /\ pc' = "built"
    /\ UNCHANGED <<input, unpacked, instr, packed>>

Call_deposit_reserve_liquidity ==
    /\ pc = "idle"
    /\ \E p \in AliasPatterns, a \in U64Values :
          /\ call' = [fn |-> "deposit_reserve_liquidity",
                      args |-> <<Arg(p, 1), a, Arg(p, 2), Arg(p, 3), Arg(p, 4), Arg(p, 5), Arg(p, 6), Arg(p, 7), Arg(p, 8), Arg(p, 9)>>]
          /\ built' = deposit_reserve_liquidity(Arg(p, 1), a, Arg(p, 2),
                      Arg(p, 3), Arg(p, 4), Arg(p, 5), Arg(p, 6), Arg(p, 7),
                      Arg(p, 8), Arg(p, 9))
    /\ pc' = "built"
    /\ UNCHANGED <<input, unpacked, instr, packed>>

Call_redeem_reserve_collateral ==
    /\ pc = "idle"
    /\ \E p \in AliasPatterns, a \in U64Values :
          /\ call' = [fn |-> "redeem_reserve_collateral",
                      args |-> <<Arg(p, 1), a, Arg(p, 2), Arg(p, 3), Arg(p, 4), Arg(p, 5), Arg(p, 6), Arg(p, 7), Arg(p, 8), Arg(p, 9)>>]
          /\ built' = redeem_reserve_collateral(Arg(p, 1), a, Arg(p, 2),
                      Arg(p, 3), Arg(p, 4), Arg(p, 5), Arg(p, 6), Arg(p, 7),
                      Arg(p, 8), Arg(p, 9))
    /\ pc' = "built"
    /\ UNCHANGED <<input, unpacked, instr, packed>>

Call_init_obligation ==
    /\ pc = "idle"
    /\ \E p \in AliasPatterns :
          /\ call' = [fn |-> "init_obligation",
                      args |-> <<Arg(p, 1), Arg(p, 2), Arg(p, 3), Arg(p, 4)>>]
          /\ built' = init_obligation(Arg(p, 1), Arg(p, 2), Arg(p, 3),
                      Arg(p, 4))
    /\ pc' = "built"
    /\ UNCHANGED <<input, unpacked, instr, packed>>

Call_refresh_obligation ==
    /\ pc = "idle"
    /\ \E p \in AliasPatterns, rs \in ReserveLists :
          /\ call' = [fn |-> "refresh_obligation",
                      args |-> <<Arg(p, 1), Arg(p, 2), rs>>]
          /\ built' = refresh_obligation(Arg(p, 1), Arg(p, 2), rs)
    /\ pc' = "built"
    /\ UNCHANGED <<input, unpacked, instr, packed>>

Call_deposit_obligation_collateral ==
    /\ pc = "idle"
    /\ \E p \in AliasPatterns, a \in U64Values, rs \in ReserveLists :
          /\ call' = [fn |-> "deposit_obligation_collateral",
                      args |-> <<Arg(p, 1), a, Arg(p, 2), Arg(p, 3), Arg(p, 4), Arg(p, 5), Arg(p, 6), Arg(p, 7), Arg(p, 8), Arg(p, 9), rs>>]
          /\ built' = deposit_obligation_collateral(Arg(p, 1), a, Arg(p, 2),
                      Arg(p, 3), Arg(p, 4), Arg(p, 5), Arg(p, 6), Arg(p, 7),
                      Arg(p, 8), Arg(p, 9), rs)
    /\ pc' = "built"
    /\ UNCHANGED <<input, unpacked, instr, packed>>

Call_withdraw_obligation_collateral ==
    /\ pc = "idle"
    /\ \E p \in AliasPatterns, a \in U64Values :
          /\ call' = [fn |-> "withdraw_obligation_collateral",
                      args |-> <<Arg(p, 1), a, Arg(p, 2), Arg(p, 3), Arg(p, 4), Arg(p, 5), Arg(p, 6), Arg(p, 7)>>]
          /\ built' = withdraw_obligation_collateral(Arg(p, 1), a, Arg(p, 2), Arg(p, 3), Arg(p, 4), Arg(p, 5), Arg(p, 6), Arg(p, 7))
    /\ pc' = "built"
    /\ UNCHANGED <<input, unpacked, instr, packed>>

Call_borrow_obligation_liquidity ==
    /\ pc = "idle"
    /\ \E p \in AliasPatterns, a \in U64Values :
          /\ call' = [fn |-> "borrow_obligation_liquidity",
                      args |-> <<Arg(p, 1), a, Arg(p, 2), Arg(p, 3), Arg(p, 4), Arg(p, 5), Arg(p, 6), Arg(p, 7), Arg(p, 8), Arg(p, 9), Arg(p, 10), Arg(p, 11)>>]
          /\ built' = borrow_obligation_liquidity(Arg(p, 1), a, Arg(p, 2),
                      Arg(p, 3), Arg(p, 4), Arg(p, 5), Arg(p, 6), Arg(p, 7),
                      Arg(p, 8), Arg(p, 9), Arg(p, 10), Arg(p, 11))
    /\ pc' = "built"
    /\ UNCHANGED <<input, unpacked, instr, packed>>

Call_repay_obligation_liquidity ==
    /\ pc = "idle"
    /\ \E p \in AliasPatterns, a \in U64Values :
          /\ call' = [fn |-> "repay_obligation_liquidity",
                      args |-> <<Arg(p, 1), a, Arg(p, 2), Arg(p, 3), Arg(p, 4), Arg(p, 5), Arg(p, 6), Arg(p, 7)>>]
          /\ built' = repay_obligation_liquidity(Arg(p, 1), a, Arg(p, 2),
                      Arg(p, 3), Arg(p, 4), Arg(p, 5), Arg(p, 6), Arg(p, 7))
    /\ pc' = "built"
    /\ UNCHANGED <<input, unpacked, instr, packed>>

Call_claim_obligation_mine ==
    /\ pc = "idle"
    /\ \E p \in AliasPatterns :
          /\ call' = [fn |-> "claim_obligation_mine",
                      args |-> <<Arg(p, 1), Arg(p, 2), Arg(p, 3), Arg(p, 4),
                              Arg(p, 5), Arg(p, 6), Arg(p, 7)>>]
          /\ built' = claim_obligation_mine(Arg(p, 1), Arg(p, 2), Arg(p, 3),
                      Arg(p, 4), Arg(p, 5), Arg(p, 6), Arg(p, 7))
    /\ pc' = "built"
    /\ UNCHANGED <<input, unpacked, instr, packed>>

\* the caller drops the results
Return ==
    /\ pc # "idle"
    /\ pc' = "idle"
    /\ input' = <<>>
    /\ unpacked' = NoResult
    /\ instr' = NoInstruction
    /\ packed' = <<>>
    /\ call' = NoCall
    /\ built' = NoBuilt

Next ==
    \/ CallUnpack
    \/ CallPack
    \/ PackUnpacked
    \/ UnpackPacked
    \/ Call_refresh_reserves
    \/ Call_deposit_reserve_liquidity
    \/ Call_redeem_reserve_collateral
    \/ Call_init_obligation
    \/ Call_refresh_obligation
    \/ Call_deposit_obligation_collateral
    \/ Call_withdraw_obligation_collateral
    \/ Call_borrow_obligation_liquidity
    \/ Call_repay_obligation_liquidity
    \/ Call_claim_obligation_mine
    \/ Return

Spec == Init /\ [][Next]_vars

TypeOK ==
    /\ pc \in {"idle", "unpacked", "packed", "repacked", "reunpacked", "built"}
    /\ unpacked.ok \in BOOLEAN

(***************************************************************************)
(* Vocabulary of the properties.                                           *)
(***************************************************************************)
\* the tag written above each variant of the enum
TagOf(variant) ==
    CASE variant = "InitLendingMarket" -> 0
      [] variant = "SetLendingMarketOwner" -> 1
      [] variant = "InitReserve" -> 2
      [] variant = "RefreshReserve" -> 3
      [] variant = "DepositReserveLiquidity" -> 4
      [] variant = "RedeemReserveCollateral" -> 5
      [] variant = "InitObligation" -> 6
      [] variant = "RefreshObligation" -> 7
      [] variant = "DepositObligationCollateral" -> 8
      [] variant = "WithdrawObligationCollateral" -> 9
      [] variant = "BorrowObligationLiquidity" -> 10
      [] variant = "RepayObligationLiquidity" -> 11
      [] variant = "LiquidateObligation" -> 12
      [] variant = "FlashLoan" -> 13
      [] variant = "SetConfig" -> 14
      [] variant = "InitMining" -> 16
      [] variant = "RefreshMining" -> 17
      [] variant = "DepositMining" -> 18
      [] variant = "WithdrawMining" -> 19
      [] variant = "ClaimMiningMine" -> 20
      [] variant = "ClaimObligationMine" -> 21
      [] variant = "ClaimOwnerFee" -> 22
      [] variant = "ReceivePendingOwner" -> 23
      [] variant = "RefreshReserves" -> 24
      [] variant = "LiquidateObligation2" -> 25
      [] variant = "ClaimMine" -> 26

\* the number of fixed-field bytes of each tag's layout
FixedLen(tag) ==
    CASE tag = 0 -> 64
      [] tag = 1 -> 32
      [] tag = 2 -> 50
      [] tag \in AmountTags \cup {13} -> 8
      [] tag = 26 -> 4
      [] OTHER -> 0

\* byte i (0 the least significant) of the u64 v
ByteOf(v, i) ==
    IF i % 2 = 0 THEN v[(i \div 2) + 1] % 256 ELSE v[(i \div 2) + 1] \div 256

\* the u64 carried by a single-u64 variant
AmountOf(d) ==
    CASE d.variant \in {"DepositReserveLiquidity", "BorrowObligationLiquidity",
                        "RepayObligationLiquidity", "LiquidateObligation",
                        "LiquidateObligation2"} -> d.liquidity_amount
      [] d.variant \in {"RedeemReserveCollateral", "DepositObligationCollateral",
                        "WithdrawObligationCollateral"} -> d.collateral_amount
      [] d.variant \in {"DepositMining", "WithdrawMining"} -> d.amount

\* a buffer that is exactly a registered tag and the fixed fields of its
\* layout, every bool byte being 0 or 1
Canonical(b) ==
    /\ b # <<>>
    /\ b[1] \in RegisteredTags
    /\ Len(b) = 1 + FixedLen(b[1])
    /\ b[1] = 2 => (b[50] \in {0, 1} /\ b[51] \in {0, 1})

(***************************************************************************)
(* C1.  For every registered tag and every canonical minimal-length buffer *)
(* b of that tag, unpack(b) succeeds and pack(unpack(b)) = b.              *)
(***************************************************************************)
C1_RoundTripFromBytes ==
    /\ (pc \in {"unpacked", "repacked"} /\ Canonical(input)) => unpacked.ok
    /\ (pc = "repacked" /\ Canonical(input)) => packed = input

(***************************************************************************)
(* C2.  For every instruction d, unpack(pack(d)) succeeds and returns d.   *)
(***************************************************************************)
C2_RoundTripFromInstruction ==
    pc = "reunpacked" => unpacked = Ok(instr)

(***************************************************************************)
(* C3.  pack of a variant without fields is the single byte of its tag;    *)
(* pack(RefreshReserve) is <<3>>.                                          *)
(***************************************************************************)
C3_FieldlessIsTagByte ==
    (pc = "packed" /\ DOMAIN instr = {"variant"})
        => packed = << TagOf(instr.variant) >>

(***************************************************************************)
(* C4.  pack(DepositMining{amount: a}) is 9 bytes, the tag 18 and then the *)
(* 8 bytes of a, least significant first; for a = 5 it is                  *)
(* <<18, 5, 0, 0, 0, 0, 0, 0, 0>>.  The same holds, with their own tags,   *)
(* of the variants of tags 4, 5, 8, 9, 10, 11, 19 and 25.                  *)
(***************************************************************************)
C4_AmountLittleEndian ==
    (pc = "packed"
       /\ TagOf(instr.variant) \in {4, 5, 8, 9, 10, 11, 18, 19, 25})
    => /\ Len(packed) = 9
       /\ packed[1] = TagOf(instr.variant)
       /\ \A i \in 0 .. 7 : packed[i + 2] = ByteOf(AmountOf(instr), i)
       /\ instr = DepositMining(U64(5))
            => packed = <<18, 5, 0, 0, 0, 0, 0, 0, 0>>

C4_Witness ==
    /\ pc = "packed"
    /\ instr = DepositMining(<<513, 1027, 1541, 2055>>)
    /\ packed = <<18, 1, 2, 3, 4, 5, 6, 7, 8>>

(***************************************************************************)
(* C5, as stated.  unpack of the empty buffer fails, returns no            *)
(* instruction, and its error is not the error returned for a tag that has *)
(* no arm.                                                                 *)
(***************************************************************************)
C5_EmptyDistinctFromUnknownTag ==
    (pc = "unpacked" /\ input = <<>>)
    => /\ ~unpacked.ok
       /\ "value" \notin DOMAIN unpacked
       /\ \A t \in Byte \ RegisteredTags : unpack(<<t>>).err # unpacked.err

(***************************************************************************)
(* C5, amended.  unpack of the empty buffer fails with                     *)
(* InstructionUnpackError and returns no instruction; this is the very     *)
(* error returned for a tag that has no arm.                               *)
(***************************************************************************)
C5_EmptyFailsLikeUnknownTag ==
    (pc = "unpacked" /\ input = <<>>)
    => /\ unpacked = Err(InstructionUnpackError)
       /\ "value" \notin DOMAIN unpacked
       /\ \A t \in Byte \ RegisteredTags : unpack(<<t>>) = unpacked

C5_Witness ==
    /\ pc = "unpacked"
    /\ input = <<>>
    /\ ~unpacked.ok

(***************************************************************************)
(* C6.  A buffer whose first byte is not a registered tag fails with the   *)
(* error of the catch-all arm whatever follows the tag, and returns no     *)
(* instruction; a buffer whose first byte is a registered tag is decoded   *)
(* by that tag's arm: it yields that tag's variant or a failure of one of  *)
(* the arm's field readers, never the error of the catch-all arm.          *)
(***************************************************************************)
C6_UnknownTagRejected ==
    (pc = "unpacked" /\ input # <<>>)
    => IF input[1] \notin RegisteredTags
       THEN /\ unpacked = Err(InstructionUnpackError)
            /\ "value" \notin DOMAIN unpacked
       ELSE IF unpacked.ok
            THEN TagOf(unpacked.value.variant) = input[1]
            ELSE unpacked.err \in {TruncatedInput, InvalidFieldEncoding}

C6_Witness ==
    /\ pc = "unpacked"
    /\ input = <<15, 0, 200>>
    /\ unpacked = Err(InstructionUnpackError)

(***************************************************************************)
(* C7, as stated.  For a tag with fixed fields, a payload shorter than the *)
(* fixed fields fails with TruncatedInput and returns no instruction.      *)
(***************************************************************************)
ShortPayload ==
    /\ pc = "unpacked"
    /\ input # <<>>
    /\ input[1] \in RegisteredTags
    /\ Len(input) - 1 < FixedLen(input[1])

C7_ShortIsTruncated ==
    ShortPayload => unpacked = Err(TruncatedInput)

(***************************************************************************)
(* C7, amended.  Such a payload always fails and returns no instruction.   *)
(* The failure is TruncatedInput, except for a tag-2 payload of 49 bytes   *)
(* whose use_pyth_oracle byte is neither 0 nor 1: that byte is read before *)
(* the missing is_lp byte is looked for, and the failure is                *)
(* InvalidFieldEncoding.                                                   *)
(***************************************************************************)
BadBoolBeforeEnd ==
    /\ input[1] = 2
    /\ Len(input) = 50
    /\ input[50] \notin {0, 1}

C7_ShortAlwaysFails ==
    ShortPayload
    => /\ ~unpacked.ok
       /\ "value" \notin DOMAIN unpacked
       /\ unpacked.err = IF BadBoolBeforeEnd THEN InvalidFieldEncoding
                         ELSE TruncatedInput

C7_Witness ==
    /\ ShortPayload
    /\ BadBoolBeforeEnd
    /\ unpacked = Err(InvalidFieldEncoding)

(***************************************************************************)
(* C8.  A buffer <<13>> \o LE8(amount) \o tail, the tail of any length,    *)
(* decodes to FlashLoan with that amount and with call_back_data equal to  *)
(* the tail.                                                               *)
(***************************************************************************)
C8_FlashLoanKeepsTail ==
    (pc = "unpacked" /\ Len(input) >= 9 /\ input[1] = 13)
    => /\ unpacked.ok
       /\ DOMAIN unpacked.value = {"variant", "amount", "call_back_data"}
       /\ unpacked.value.variant = "FlashLoan"
       /\ \A i \in 0 .. 7 : ByteOf(unpacked.value.amount, i) = input[i + 2]
       /\ \A j \in 1 .. 4 : unpacked.value.amount[j] \in 0 .. 65535
       /\ unpacked.value.call_back_data = Drop(input, 9)
       /\ Take(input, 9) = <<13, 232, 3, 0, 0, 0, 0, 0, 0>>
            => unpacked.value.amount = U64(1000)

C8_Witness ==
    /\ pc = "unpacked"
    /\ input = <<13, 232, 3, 0, 0, 0, 0, 0, 0>> \o Pat(37, 7)
    /\ unpacked = Ok(FlashLoan(U64(1000), Pat(37, 7)))

(***************************************************************************)
(* C9.  A tag-2 buffer is read as 32 legacy bytes (seven u8, three u64,    *)
(* one u8), then total_mining_speed, kink_util_rate (u64 each),            *)
(* use_pyth_oracle and is_lp (one byte each).  The instruction holds the   *)
(* last four values only, and the result does not depend on the legacy     *)
(* bytes.                                                                  *)
(***************************************************************************)
FullInitReserve ==
    /\ pc = "unpacked"
    /\ Len(input) >= 51
    /\ input[1] = 2

C9_InitReserveDropsLegacy ==
    FullInitReserve
    => /\ unpacked.ok
         => /\ DOMAIN unpacked.value =
                 {"variant", "total_mining_speed", "kink_util_rate",
                  "use_pyth_oracle", "is_lp"}
            /\ unpacked.value.variant = "InitReserve"
            /\ \A i \in 0 .. 7 :
                 /\ ByteOf(unpacked.value.total_mining_speed, i) = input[34 + i]
                 /\ ByteOf(unpacked.value.kink_util_rate, i) = input[42 + i]
            /\ unpacked.value.use_pyth_oracle = (input[50] = 1)
            /\ unpacked.value.is_lp = (input[51] = 1)
       /\ (input[50] \in {0, 1} /\ input[51] \in {0, 1}) => unpacked.ok
       /\ \A l \in LegacyBytes :
            unpack(<<2>> \o l \o Drop(input, 33)) = unpacked

C9_Witness ==
    /\ pc = "unpacked"
    /\ input = <<2>> \o Pat(32, 37) \o <<42>> \o Pat(7, 0) \o <<7>> \o Pat(7, 0)
                 \o <<1, 0>>
    /\ unpacked = Ok(InitReserve(U64(42), U64(7), TRUE, FALSE))

(***************************************************************************)
(* C10.  A tag-2 buffer with all its fixed fields in which the             *)
(* use_pyth_oracle byte or the is_lp byte is neither 0 nor 1 fails with    *)
(* InvalidFieldEncoding and returns no instruction.                        *)
(***************************************************************************)
C10_BadBoolRejected ==
    (FullInitReserve /\ (input[50] \notin {0, 1} \/ input[51] \notin {0, 1}))
    => /\ unpacked = Err(InvalidFieldEncoding)
       /\ "value" \notin DOMAIN unpacked

C10_Witness ==
    /\ FullInitReserve
    /\ Len(input) = 51
    /\ input[50] = 1
    /\ input[51] = 2
    /\ unpacked = Err(InvalidFieldEncoding)

(***************************************************************************)
(* C11.  refresh_reserves on n reserves and n oracles (n = 0 included)     *)
(* returns the target program_id, the data <<24>> and 2n accounts          *)
(* R1, O1, ..., Rn, On in the caller's order, every reserve writable and   *)
(* not a signer, every oracle read-only and not a signer.                  *)
(***************************************************************************)
RefreshReservesCall ==
    /\ pc = "built"
    /\ call.fn = "refresh_reserves"

C11_RefreshReservesInterleaves ==
    (RefreshReservesCall /\ Len(call.args[2]) = Len(call.args[3]))
    => /\ DOMAIN built = {"program_id", "accounts", "data"}
       /\ built.program_id = call.args[1]
       /\ built.data = <<24>>
       /\ Len(built.accounts) = 2 * Len(call.args[2])
       /\ \A i \in 1 .. Len(call.args[2]) :
            /\ built.accounts[2 * i - 1] =
                 [pubkey |-> call.args[2][i], is_signer |-> FALSE,
                  is_writable |-> TRUE]
            /\ built.accounts[2 * i] =
                 [pubkey |-> call.args[3][i], is_signer |-> FALSE,
                  is_writable |-> FALSE]

C11_Witness ==
    /\ RefreshReservesCall
    /\ call.args[2] = <<Pubkey(1), Pubkey(2)>>
    /\ call.args[3] = <<Pubkey(21), Pubkey(1)>>
    /\ Len(built.accounts) = 4
    /\ built.accounts[3].pubkey = Pubkey(2)

(***************************************************************************)
(* C12.  refresh_reserves on lists of unequal length fails with            *)
(* ResourceListLengthMismatch: it neither panics nor returns an            *)
(* instruction.                                                            *)
(***************************************************************************)
C12_LengthMismatchRejected ==
    (RefreshReservesCall /\ Len(call.args[2]) # Len(call.args[3]))
    => built = [err |-> "ResourceListLengthMismatch"]

(***************************************************************************)
(* The account tables of the doc comments, one entry per fixed slot, slot  *)
(* 0 first.  arg is the position, in the builder's argument list, of the   *)
(* argument named after the slot's role; 0 stands for the token program    *)
(* id and -1 for the authority the builder derives itself.                 *)
(***************************************************************************)
writable(arg) == [arg |-> arg, is_signer |-> FALSE, is_writable |-> TRUE]

signer(arg) == [arg |-> arg, is_signer |-> TRUE, is_writable |-> FALSE]

readonly(arg) == [arg |-> arg, is_signer |-> FALSE, is_writable |-> FALSE]

AccountTable(fn) ==
    CASE fn = "deposit_reserve_liquidity" ->
           << writable(3), writable(4), writable(5), writable(6), writable(7),
              readonly(8), readonly(9), signer(10), readonly(0) >>
      [] fn = "redeem_reserve_collateral" ->
           << writable(3), writable(5), writable(6), writable(7), readonly(8),
              readonly(9), signer(10), readonly(0), writable(4) >>
      [] fn = "init_obligation" ->
           << writable(2), readonly(3), signer(4), readonly(0) >>
      [] fn = "refresh_obligation" ->
           << writable(2) >>
      [] fn = "deposit_obligation_collateral" ->
           << writable(3), writable(4), readonly(5), writable(6), readonly(7),
              readonly(8), signer(9), signer(10), readonly(0) >>
      [] fn = "withdraw_obligation_collateral" ->
           << writable(3), writable(4), readonly(5), writable(6), readonly(7),
              readonly(-1), signer(8), readonly(0) >>
      [] fn = "borrow_obligation_liquidity" ->
           << writable(3), writable(4), writable(5), writable(7), readonly(8),
              readonly(9), signer(10), readonly(0), readonly(6), readonly(11),
              readonly(12) >>
      [] fn = "repay_obligation_liquidity" ->
           << writable(3), writable(4), writable(5), writable(6), readonly(7),
              signer(8), readonly(0) >>
      [] fn = "claim_obligation_mine" ->
           << writable(2), readonly(3), readonly(4), signer(5), readonly(6),
              readonly(7), readonly(0) >>

TableBuilders ==
    { "deposit_reserve_liquidity", "redeem_reserve_collateral",
      "init_obligation", "refresh_obligation",
      "deposit_obligation_collateral", "withdraw_obligation_collateral",
      "borrow_obligation_liquidity", "repay_obligation_liquidity",
      "claim_obligation_mine" }

\* the reserve list a builder appends after its fixed slots
TailOf(c) ==
    CASE c.fn = "refresh_obligation" -> c.args[3]
      [] c.fn = "deposit_obligation_collateral" -> c.args[11]
      [] OTHER -> <<>>

\* the identity a table entry stands for in a call
SlotKey(entry, c) ==
    IF entry.arg = 0 THEN spl_token_id
    ELSE IF entry.arg = -1 THEN find_program_address(c.args[7], c.args[1])
    ELSE c.args[entry.arg]

TableCall ==
    /\ pc = "built"
    /\ call.fn \in TableBuilders

(***************************************************************************)
(* C13.  For each of the nine builders with an account table, the fixed    *)
(* part of the resource list has as many slots as the table and slot i     *)
(* holds the identity of the role the table documents at position i.       *)
(***************************************************************************)
C13_SlotsFollowTable ==
    TableCall
    => LET table == AccountTable(call.fn)
       IN  /\ Len(built.accounts) = Len(table) + Len(TailOf(call))
           /\ \A i \in 1 .. Len(table) :
                built.accounts[i].pubkey = SlotKey(table[i], call)

\* redeem_reserve_collateral called with pairwise distinct identities
C13_Witness ==
    /\ pc = "built"
    /\ call.fn = "redeem_reserve_collateral"
    /\ \A i, j \in 1 .. 10 : (i # j /\ i # 2 /\ j # 2)
                                => call.args[i] # call.args[j]
    /\ Len(built.accounts) = 9
    /\ built.accounts[8].pubkey = spl_token_id
    /\ built.accounts[9].pubkey = call.args[4]

(***************************************************************************)
(* C14.  For every builder and every fixed slot, the writable and signer   *)
(* flags of the emitted reference are those the account table documents    *)
(* for the slot.                                                           *)
(***************************************************************************)
C14_FlagsFollowTable ==
    TableCall
    => LET table == AccountTable(call.fn)
       IN  \A i \in 1 .. Len(table) :
             /\ i <= Len(built.accounts)
             /\ built.accounts[i].is_signer = table[i].is_signer
             /\ built.accounts[i].is_writable = table[i].is_writable

(***************************************************************************)
(* The same call with every identity replaced by one of its own: argument  *)
(* i by Pubkey(i), element j of a list at position i by a key no other     *)
(* position uses.  Amounts and list lengths are kept.                      *)
(***************************************************************************)
Apply(fn, a) ==
    CASE fn = "refresh_reserves" -> refresh_reserves(a[1], a[2], a[3])
      [] fn = "deposit_reserve_liquidity" ->
           deposit_reserve_liquidity(a[1], a[2], a[3], a[4], a[5], a[6], a[7], a[8], a[9], a[10])
      [] fn = "redeem_reserve_collateral" ->
           redeem_reserve_collateral(a[1], a[2], a[3], a[4], a[5], a[6], a[7], a[8], a[9], a[10])
      [] fn = "init_obligation" -> init_obligation(a[1], a[2], a[3], a[4])
      [] fn = "refresh_obligation" -> refresh_obligation(a[1], a[2], a[3])
      [] fn = "deposit_obligation_collateral" ->
           deposit_obligation_collateral(a[1], a[2], a[3], a[4], a[5], a[6], a[7], a[8], a[9], a[10], a[11])
      [] fn = "withdraw_obligation_collateral" ->
           withdraw_obligation_collateral(a[1], a[2], a[3], a[4], a[5], a[6], a[7], a[8])
      [] fn = "borrow_obligation_liquidity" ->
           borrow_obligation_liquidity(a[1], a[2], a[3], a[4], a[5], a[6], a[7], a[8], a[9], a[10], a[11], a[12])
      [] fn = "repay_obligation_liquidity" ->
           repay_obligation_liquidity(a[1], a[2], a[3], a[4], a[5], a[6], a[7], a[8])
      [] fn = "claim_obligation_mine" ->
           claim_obligation_mine(a[1], a[2], a[3], a[4], a[5], a[6], a[7])

AmountBuilders ==
    { "deposit_reserve_liquidity", "redeem_reserve_collateral",
      "deposit_obligation_collateral", "withdraw_obligation_collateral",
      "borrow_obligation_liquidity", "repay_obligation_liquidity" }

IsList(fn, i) ==
    \/ fn = "refresh_reserves" /\ i \in {2, 3}
    \/ fn = "refresh_obligation" /\ i = 3
    \/ fn = "deposit_obligation_collateral" /\ i = 11

Fresh(c) ==
    [i \in 1 .. Len(c.args) |->
        IF c.fn \in AmountBuilders /\ i = 2 THEN c.args[i]
        ELSE IF IsList(c.fn, i)
             THEN [j \in 1 .. Len(c.args[i]) |-> Pubkey(20 + 3 * i + j)]
             ELSE Pubkey(i)]

Flags(meta) == <<meta.is_signer, meta.is_writable>>

DescriptorBuilt ==
    /\ pc = "built"
    /\ "accounts" \in DOMAIN built

(***************************************************************************)
(* C15.  Builders never reorder, deduplicate or coalesce references.  The  *)
(* reserve list of refresh_obligation and deposit_obligation_collateral is *)
(* appended after the 1 and 9 fixed slots element by element in caller     *)
(* order, read-only and not signer, so the list has prefix + tail length   *)
(* slots; and in every builder a call whose arguments share identities     *)
(* emits as many slots, with the same flags and each argument at the same  *)
(* position, as the call with identities all distinct.                     *)
(***************************************************************************)
C15_NoReorderNoDedup ==
    DescriptorBuilt
    => LET tail == TailOf(call)
           prefix == IF call.fn = "refresh_obligation" THEN 1 ELSE 9
           ref == Apply(call.fn, Fresh(call))
       IN  /\ call.fn \in {"refresh_obligation", "deposit_obligation_collateral"}
              => /\ Len(built.accounts) = prefix + Len(tail)
                 /\ \A j \in 1 .. Len(tail) :
                      built.accounts[prefix + j] =
                        [pubkey |-> tail[j], is_signer |-> FALSE,
                         is_writable |-> FALSE]
           /\ Len(built.accounts) = Len(ref.accounts)
           /\ \A i \in 1 .. Len(ref.accounts) :
                Flags(built.accounts[i]) = Flags(ref.accounts[i])
           /\ call.fn \in TableBuilders
              => \A i \in 1 .. Len(AccountTable(call.fn)) :
                   built.accounts[i].pubkey =
                     SlotKey(AccountTable(call.fn)[i], call)
           /\ call.fn = "refresh_reserves"
              => \A i \in 1 .. Len(call.args[2]) :
                   /\ built.accounts[2 * i - 1].pubkey = call.args[2][i]
                   /\ built.accounts[2 * i].pubkey = call.args[3][i]

\* every argument and both tail elements of the call are one identity
C15_Witness ==
    /\ DescriptorBuilt
    /\ call.fn = "deposit_obligation_collateral"
    /\ \A i \in 3 .. 10 : call.args[i] = call.args[1]
    /\ call.args[11] = <<call.args[1], call.args[1]>>
    /\ Len(built.accounts) = 11
    /\ built.accounts[10] = built.accounts[11]

(***************************************************************************)
(* The builders whose account table has a lending market authority slot:   *)
(* the slot (counted from 1), the position of the lending market argument  *)
(* and the position of the lending_market_authority_pubkey argument (0     *)
(* where the builder has none).                                            *)
(***************************************************************************)
AuthorityBuilders ==
    { "deposit_reserve_liquidity", "redeem_reserve_collateral",
      "deposit_obligation_collateral", "withdraw_obligation_collateral",
      "borrow_obligation_liquidity", "claim_obligation_mine" }

AuthoritySlot(fn) == IF fn = "deposit_reserve_liquidity" THEN 7 ELSE 6

LendingMarketArg(fn) ==
    CASE fn \in {"deposit_obligation_collateral",
                 "withdraw_obligation_collateral"} -> 7
      [] fn = "claim_obligation_mine" -> 6
      [] OTHER -> 8

AuthorityArg(fn) ==
    CASE fn = "withdraw_obligation_collateral" -> 0
      [] fn = "deposit_obligation_collateral" -> 8
      [] fn = "claim_obligation_mine" -> 7
      [] OTHER -> 9

AuthorityCall ==
    /\ pc = "built"
    /\ call.fn \in AuthorityBuilders

Derived(c) ==
    find_program_address(c.args[LendingMarketArg(c.fn)], c.args[1])

(***************************************************************************)
(* C16, as stated.  Each of the six builders fills the authority slot with *)
(* the identity derived from the program id and the lending market, so the *)
(* slot depends on no other argument.                                      *)
(***************************************************************************)
C16_AuthorityAlwaysDerived ==
    AuthorityCall
    => built.accounts[AuthoritySlot(call.fn)].pubkey = Derived(call)

(***************************************************************************)
(* C16, amended.  withdraw_obligation_collateral fills the authority slot  *)
(* with the identity derived from the program id and the lending market;   *)
(* the other five builders fill it with the caller's                       *)
(* lending_market_authority_pubkey argument, whatever it is.               *)
(***************************************************************************)
C16_AuthorityDerivedOrSupplied ==
    AuthorityCall
    => built.accounts[AuthoritySlot(call.fn)].pubkey =
         IF AuthorityArg(call.fn) = 0 THEN Derived(call)
         ELSE call.args[AuthorityArg(call.fn)]

\* a withdraw call with distinct identities, and its derived authority
C16_Witness ==
    /\ pc = "built"
    /\ call.fn = "withdraw_obligation_collateral"
    /\ call.args[7] # call.args[8]
    /\ call.args[7] # call.args[1]
    /\ built.accounts[6].pubkey = find_program_address(call.args[7], call.args[1])
    /\ \A i \in {1, 3, 4, 5, 6, 7, 8} : built.accounts[6].pubkey # call.args[i]

\* the instruction a builder call is for, with the caller's amount
OperationOf(c) ==
    CASE c.fn = "refresh_reserves" -> RefreshReserves
      [] c.fn = "deposit_reserve_liquidity" -> DepositReserveLiquidity(c.args[2])
      [] c.fn = "redeem_reserve_collateral" -> RedeemReserveCollateral(c.args[2])
      [] c.fn = "init_obligation" -> InitObligation
      [] c.fn = "refresh_obligation" -> RefreshObligation
      [] c.fn = "deposit_obligation_collateral" ->
           DepositObligationCollateral(c.args[2])
      [] c.fn = "withdraw_obligation_collateral" ->
           WithdrawObligationCollateral(c.args[2])
      [] c.fn = "borrow_obligation_liquidity" ->
           BorrowObligationLiquidity(c.args[2])
      [] c.fn = "repay_obligation_liquidity" ->
           RepayObligationLiquidity(c.args[2])
      [] c.fn = "claim_obligation_mine" -> ClaimObligationMine

(***************************************************************************)
(* C17.  Every descriptor a builder returns has the program_id argument as *)
(* its target and a non-empty payload that unpack decodes to the builder's *)
(* own variant carrying the caller's amount.                               *)
(***************************************************************************)
C17_BuilderPayloadDecodes ==
    DescriptorBuilt
    => /\ built.program_id = call.args[1]
       /\ built.data # <<>>
       /\ unpack(built.data) = Ok(OperationOf(call))

\* a borrow of u64::MAX, its payload and what the payload decodes to
C17_Witness ==
    /\ DescriptorBuilt
    /\ call.fn = "borrow_obligation_liquidity"
    /\ call.args[2] = <<65535, 65535, 65535, 65535>>
    /\ built.data = <<10, 255, 255, 255, 255, 255, 255, 255, 255>>
    /\ unpack(built.data) =
         Ok(BorrowObligationLiquidity(<<65535, 65535, 65535, 65535>>))

\* a call of unpack that succeeded on a buffer whose tag is not FlashLoan's
DecodedOtherThanFlashLoan ==
    /\ pc \in {"unpacked", "repacked"}
    /\ unpacked.ok
    /\ input[1] # 13

(***************************************************************************)
(* C18.  For every tag but 13, unpack ignores the bytes after the tag's    *)
(* fixed fields: a buffer that decodes to d decodes to the same d with     *)
(* any bytes appended and with everything after the fixed fields removed   *)
(* (for a field-less tag, like the tag byte alone).  So pack(unpack(b))    *)
(* equals b only for buffers of exactly the tag byte plus the fixed        *)
(* fields.                                                                 *)
(***************************************************************************)
C18_TrailingBytesIgnored ==
    DecodedOtherThanFlashLoan
    => LET minimal == 1 + FixedLen(input[1])
       IN  /\ Len(input) >= minimal
           /\ unpack(Take(input, minimal)) = unpacked
           /\ \A x \in Extras \cup Tails : unpack(input \o x) = unpacked
           /\ (pc = "repacked" /\ packed = input) => Len(input) = minimal

\* a deposit of 42 followed by two more bytes, decoded and packed again
C18_Witness ==
    /\ pc = "repacked"
    /\ input = <<4, 42, 0, 0, 0, 0, 0, 0, 0, 0, 200>>
    /\ unpacked = Ok(DepositReserveLiquidity(U64(42)))
    /\ packed = <<4, 42, 0, 0, 0, 0, 0, 0, 0>>

\* pack has been called on instr and has returned packed
Packed == pc \in {"packed", "reunpacked", "repacked"}

(***************************************************************************)
(* C19.  pack never produces bytes that decode to another instruction:     *)
(* unpack(pack(d)) fails or returns d, a non-empty pack(d) starts with     *)
(* d's own tag, and no two variants have the same tag.                     *)
(***************************************************************************)
C19_PackNeverMisleads ==
    /\ pc = "reunpacked" => (~unpacked.ok \/ unpacked.value = instr)
    /\ (Packed /\ packed # <<>>) => packed[1] = TagOf(instr.variant)
    /\ Packed => \A d \in Instructions :
                   TagOf(d.variant) = TagOf(instr.variant)
                     => d.variant = instr.variant

\* ClaimMine packed to five bytes and decoded back
C19_Witness ==
    /\ pc = "reunpacked"
    /\ instr = ClaimMine(100, 10000)
    /\ packed = <<26, 100, 0, 16, 39>>
    /\ unpacked = Ok(instr)

====
